---- MODULE Spec2Model ----
(***************************************************************************)
(* Conversation-state management of the two chat agents                    *)
(*   src/src/examples/ex001/main.py  (no checkpoint: the caller threads    *)
(*                                    the transcript through every invoke) *)
(*   src/src/examples/ex002/main.py  (InMemorySaver checkpoint per         *)
(*                                    thread_id)                           *)
(* and of the archive file interactions.json both of them write on exit.   *)
(*                                                                         *)
(* A message is a record [type, content, id].  content is a record         *)
(* [text, chars]: text says whether the content is a str, chars are its    *)
(* characters (for a structured payload: the characters of str(content)).  *)
(* id is NoId for a message built without an id.                           *)
(***************************************************************************)
EXTENDS Integers, Sequences, FiniteSets, TLC

\* ------------------------------------------------------------------------
\* Bounds of the model
\* ------------------------------------------------------------------------
\* Longest transcript and longest batch handed to the reducer on its own.
MaxBatch == 2
\* Largest id a caller gives a message explicitly (reducer on its own).
MaxId == 2
\* Turns one run of a loop submits before it must leave.
MaxTurns == 2
\* The deterministic llms considered are numbered 0..MaxSeed.
MaxSeed == 1
\* Longest initial text of the archive file, in lexemes.
MaxFileLen == 3
\* Calls of salvar_interacoes on the archive file on its own.
MaxSaves == 2
\* Longest text handed to _limpar_conteudo on its own.
MaxContentLen == 3

\* ------------------------------------------------------------------------
\* State
\* ------------------------------------------------------------------------
VARIABLES
    \* the reducer on its own
    channel,            \* value of a messages channel
    batch,              \* the update last written to the channel
    before,             \* value of the channel before that update
    reduced,            \* "idle", "merged" or "raised"
    \* ex001: the agent without checkpoint
    pc1,                \* "input", "done", "llm_error" or "save_error"
    current_messages1,  \* current_messages of ex001's loop
    typed1,             \* the lines ex001 submitted as turns
    uuid1,              \* number of ids drawn in ex001
    lido1,              \* the lines input() returned in ex001
    \* ex002: the agent with checkpoint, one run of its loop per thread id
    pc2,                \* thread id -> "input", "done", "llm_error", "save_error"
    current_messages2,  \* thread id -> current_messages of that loop
    typed2,             \* thread id -> the lines submitted as turns
    uuid2,              \* thread id -> number of ids drawn
    lido2,              \* thread id -> the lines input() returned
    storage,            \* checkpointer: thread id -> latest checkpointed messages
    llm_seen,           \* thread id -> messages of the last llm.invoke
    llm_seed,           \* which deterministic llm answers
    \* the archive file
    arquivo,            \* the file at ARQUIVO_INTERACOES
    inicial,            \* the file before the first call of salvar_interacoes
    salvos,             \* blocos written by the completed calls, in order
    tentativas,         \* number of calls of salvar_interacoes
    falhas,             \* number of calls an exception left
    \* two calls of salvar_interacoes running at once on the archive file
    wpc,                \* writer -> "start", "read", "done" or "raised"
    wlista,             \* writer -> its local lista
    wbloco,             \* writer -> its bloco
    ordem,              \* the reads and writes on the file so far, in order
    \* _limpar_conteudo on its own
    conteudo,           \* the content handed to _limpar_conteudo
    limpo,              \* what it returned
    limpo2,             \* what it returned for that result
    normalizado         \* whether it has been called

rvars == <<channel, batch, before, reduced>>
svars == <<pc1, current_messages1, typed1, uuid1, lido1, pc2, current_messages2,
           typed2, uuid2, lido2, storage, llm_seen, llm_seed>>
avars == <<arquivo, inicial, salvos, tentativas, falhas>>
wvars == <<wpc, wlista, wbloco, ordem>>
nvars == <<conteudo, limpo, limpo2, normalizado>>
xvars == <<wvars, nvars>>
vars == <<rvars, svars, avars, xvars>>

\* ------------------------------------------------------------------------
\* Messages
\* ------------------------------------------------------------------------
\* BaseMessage.id of a message constructed without id (None).
NoId == 0
\* langgraph's REMOVE_ALL_MESSAGES sentinel id ("__remove_all__").
REMOVE_ALL_MESSAGES == -1

Text(chars) == [text |-> TRUE, chars |-> chars]
Payload(chars) == [text |-> FALSE, chars |-> chars]

Message(type, content, id) == [type |-> type, content |-> content, id |-> id]
HumanMessage(content) == Message("HumanMessage", content, NoId)
RemoveMessage(id) == Message("RemoveMessage", Text(<<>>), id)

\* A message without its id: what two messages of different runs can share.
StripId(m) == [type |-> m.type, content |-> m.content]
StripIds(s) == [i \in 1..Len(s) |-> StripId(s[i])]
IdsOf(s) == {s[i].id : i \in 1..Len(s)}

\* ------------------------------------------------------------------------
\* The reducer of AgentState.messages: langgraph's add_messages
\* ------------------------------------------------------------------------
\* "if m.id is None: m.id = str(uuid.uuid4())": the k-th message without an
\* id gets the fresh id base + k.
AssignIds(s, base) ==
    [i \in 1..Len(s) |->
        IF s[i].id = NoId
        THEN [s[i] EXCEPT !.id = base + Cardinality({j \in 1..i : s[j].id = NoId})]
        ELSE s[i]]

NoIdCount(s) == Cardinality({j \in 1..Len(s) : s[j].id = NoId})

\* merged_by_id.get(id): the index of the message with this id, 0 for none.
IndexOfId(merged, id) ==
    LET hits == {i \in 1..Len(merged) : merged[i].id = id}
    IN  IF hits = {} THEN 0 ELSE CHOOSE i \in hits : \A j \in hits : j <= i

\* The loop "for m in right" over merged / merged_by_id / ids_to_remove.
RECURSIVE MergeFrom(_, _, _, _)
MergeFrom(merged, ids_to_remove, right, i) ==
    IF i > Len(right)
    THEN [raised |-> FALSE,
          value |-> SelectSeq(merged, LAMBDA m : m.id \notin ids_to_remove)]
    ELSE LET m == right[i]
             existing_idx == IndexOfId(merged, m.id)
         IN  IF existing_idx # 0
             THEN IF m.type = "RemoveMessage"
                  THEN MergeFrom(merged, ids_to_remove \cup {m.id}, right, i + 1)
                  ELSE MergeFrom([merged EXCEPT ![existing_idx] = m],
                                 ids_to_remove \ {m.id}, right, i + 1)
             ELSE IF m.type = "RemoveMessage"
                  THEN [raised |-> TRUE, value |-> <<>>]
                  ELSE MergeFrom(Append(merged, m), ids_to_remove, right, i + 1)

\* A plausible slip: the field replaces the list instead of merging into it.
add_messages_replace(left, right, base) ==
    [raised |-> FALSE, value |-> AssignIds(right, base)]

\* add_messages(left, right); base is the source of fresh uuids.  The result
\* is [raised, value]: raised when the call raises ValueError.
add_messages(left, right, base) ==
    LET l == AssignIds(left, base)
        r == AssignIds(right, base + NoIdCount(left))
        all_idx == {i \in 1..Len(r) :
                       r[i].type = "RemoveMessage" /\ r[i].id = REMOVE_ALL_MESSAGES}
        remove_all_idx == CHOOSE i \in all_idx : \A j \in all_idx : j <= i
    IN  IF all_idx # {}
        THEN [raised |-> FALSE, value |-> SubSeq(r, remove_all_idx + 1, Len(r))]
        ELSE MergeFrom(l, {}, r, 1)

SeqsUpTo(S, n) == UNION {[1..k -> S] : k \in 0..n}

\* ------------------------------------------------------------------------
\* Normalisation of message content for the archive
\* ------------------------------------------------------------------------
\* Characters str.strip() removes.
Whitespace == {" ", "\n", "\r", "\t", "\f"}

\* content.replace("\n", " ").replace("\r", " ").replace("\t", " ")
ReplaceControls(chars) ==
    [i \in 1..Len(chars) |->
        IF chars[i] \in {"\n", "\r", "\t"} THEN " " ELSE chars[i]]

\* re.sub(r" +", " ", texto): every run of spaces becomes one space.
RECURSIVE CollapseSpaces(_)
CollapseSpaces(chars) ==
    IF Len(chars) <= 1 THEN chars
    ELSE IF chars[1] = " " /\ chars[2] = " "
         THEN CollapseSpaces(Tail(chars))
         ELSE <<chars[1]>> \o CollapseSpaces(Tail(chars))

\* A plausible slip: lstrip() instead of strip().
RECURSIVE Strip_esquerda(_)
Strip_esquerda(chars) ==
    IF chars = <<>> THEN chars
    ELSE IF chars[1] \in Whitespace THEN Strip_esquerda(Tail(chars))
    ELSE chars

\* str.strip()
RECURSIVE Strip(_)
Strip(chars) ==
    IF chars = <<>> THEN chars
    ELSE IF chars[1] \in Whitespace THEN Strip(Tail(chars))
    ELSE IF chars[Len(chars)] \in Whitespace
         THEN Strip(SubSeq(chars, 1, Len(chars) - 1))
         ELSE chars

\* _limpar_conteudo(content) -> str
_limpar_conteudo(content) ==
    IF content.text
    THEN Strip(CollapseSpaces(ReplaceControls(content.chars)))
    ELSE content.chars

\* messages_para_json(messages) -> list[dict]
messages_para_json(messages) ==
    [i \in 1..Len(messages) |->
        [type |-> messages[i].type,
         content |-> _limpar_conteudo(messages[i].content)]]

\* ------------------------------------------------------------------------
\* The archive file interactions.json: its text, json.loads and json.dumps
\* ------------------------------------------------------------------------
\* The text of the file is a sequence of lexemes:
\*   [lex |-> "["], [lex |-> "]"], [lex |-> ","]   the array punctuation
\*   [lex |-> " "]                                  whitespace
\*   [lex |-> "value", value |-> v]                 a scalar or an object
\*   [lex |-> "garbage"]                            text no JSON value has
\*   [lex |-> "badbyte"]                            bytes that are not UTF-8
\* A parsed value is [list |-> items] for an array, a record with the
\* object's keys for an object, [scalar |-> s] for a number or a string.
Lex(l) == [lex |-> l]
ValueLex(v) == [lex |-> "value", value |-> v]
JList(items) == [list |-> items]
isinstance_list(v) == "list" \in DOMAIN v

ParseError == [ok |-> FALSE, value |-> JList(<<>>), next |-> 0]

RECURSIVE SkipWs(_, _)
SkipWs(toks, i) ==
    IF i <= Len(toks) /\ toks[i] = Lex(" ") THEN SkipWs(toks, i + 1) ELSE i

\* The JSON grammar over the lexemes: value ::= scalar | object | array,
\* array ::= "[" "]" | "[" value ("," value)* "]".
RECURSIVE ParseValue(_, _), ParseItems(_, _, _)
ParseValue(toks, i0) ==
    LET i == SkipWs(toks, i0)
    IN  IF i > Len(toks) THEN ParseError
        ELSE IF toks[i].lex = "value"
             THEN [ok |-> TRUE, value |-> toks[i].value, next |-> i + 1]
        ELSE IF toks[i].lex = "["
             THEN LET j == SkipWs(toks, i + 1)
                  IN  IF j <= Len(toks) /\ toks[j].lex = "]"
                      THEN [ok |-> TRUE, value |-> JList(<<>>), next |-> j + 1]
                      ELSE ParseItems(toks, j, <<>>)
        ELSE ParseError

ParseItems(toks, i, acc) ==
    LET item == ParseValue(toks, i)
        j == SkipWs(toks, item.next)
    IN  IF ~item.ok \/ j > Len(toks) THEN ParseError
        ELSE IF toks[j].lex = ","
             THEN ParseItems(toks, j + 1, Append(acc, item.value))
        ELSE IF toks[j].lex = "]"
             THEN [ok |-> TRUE, value |-> JList(Append(acc, item.value)),
                   next |-> j + 1]
        ELSE ParseError

\* json.loads(text): [ok, value]; not ok is json.JSONDecodeError.
json_loads(toks) ==
    LET r == ParseValue(toks, 1)
    IN  IF r.ok /\ SkipWs(toks, r.next) > Len(toks)
        THEN [ok |-> TRUE, value |-> r.value]
        ELSE [ok |-> FALSE, value |-> JList(<<>>)]

\* json.dumps(value, ensure_ascii=False, indent=2)
RECURSIVE json_dumps(_), DumpItems(_, _)
json_dumps(v) ==
    IF isinstance_list(v)
    THEN IF v.list = <<>> THEN <<Lex("["), Lex("]")>>
         ELSE <<Lex("["), Lex(" ")>> \o DumpItems(v.list, 1) \o <<Lex(" "), Lex("]")>>
    ELSE <<ValueLex(v)>>

DumpItems(items, i) ==
    IF i = Len(items) THEN json_dumps(items[i])
    ELSE json_dumps(items[i]) \o <<Lex(","), Lex(" ")>> \o DumpItems(items, i + 1)

\* path.read_text(encoding="utf-8") raises UnicodeDecodeError
UndecodableText(bytes) == \E i \in 1..Len(bytes) : bytes[i] = Lex("badbyte")

\* A file: whether it exists, and its bytes.
File(bytes) == [exists |-> TRUE, bytes |-> bytes]
MissingFile == [exists |-> FALSE, bytes |-> <<>>]

\* ------------------------------------------------------------------------
\* salvar_interacoes
\* ------------------------------------------------------------------------
\* Metadata of the llm: _nome_do_modelo(llm) and the getattr(llm, ..., None).
_nome_do_modelo == "deepseek-r1:8b"
None == "null"

\* bloco
Bloco(data_hora, messages) ==
    [data_hora |-> data_hora,
     model |-> _nome_do_modelo,
     temperature |-> None,
     max_tokens |-> None,
     top_p |-> None,
     messages |-> messages_para_json(messages)]

\* A plausible slip: no "except json.JSONDecodeError", the error propagates.
LerLista_sem_except(file) ==
    IF file.exists /\ Len(file.bytes) > 0
    THEN IF UndecodableText(file.bytes) \/ ~json_loads(file.bytes).ok
         THEN [raised |-> TRUE, lista |-> <<>>]
         ELSE LET parsed == json_loads(file.bytes)
              IN  IF ~isinstance_list(parsed.value)
                  THEN [raised |-> FALSE, lista |-> <<parsed.value>>]
                  ELSE [raised |-> FALSE, lista |-> parsed.value.list]
    ELSE [raised |-> FALSE, lista |-> <<>>]

\* A plausible slip: a parsed value that is no list is dropped
\* ("lista = []" instead of "lista = [lista]").
LerLista_descarta(file) ==
    IF file.exists /\ Len(file.bytes) > 0
    THEN IF UndecodableText(file.bytes)
         THEN [raised |-> TRUE, lista |-> <<>>]
         ELSE LET parsed == json_loads(file.bytes)
              IN  IF parsed.ok /\ isinstance_list(parsed.value)
                  THEN [raised |-> FALSE, lista |-> parsed.value.list]
                  ELSE [raised |-> FALSE, lista |-> <<>>]
    ELSE [raised |-> FALSE, lista |-> <<>>]

\* lista, as read from the file; [raised, lista]: raised when an exception
\* other than json.JSONDecodeError leaves the function.
LerLista(file) ==
    IF file.exists /\ Len(file.bytes) > 0
    THEN IF UndecodableText(file.bytes)
         THEN [raised |-> TRUE, lista |-> <<>>]
         ELSE LET parsed == json_loads(file.bytes)
              IN  IF parsed.ok
                  THEN IF ~isinstance_list(parsed.value)
                       THEN [raised |-> FALSE, lista |-> <<parsed.value>>]
                       ELSE [raised |-> FALSE, lista |-> parsed.value.list]
                  ELSE [raised |-> FALSE, lista |-> <<>>]
    ELSE [raised |-> FALSE, lista |-> <<>>]

\* A plausible slip: the file is overwritten with the new bloco alone.
salvar_interacoes_sobrescreve(messages, file, data_hora) ==
    [raised |-> FALSE,
     file |-> File(json_dumps(JList(<<Bloco(data_hora, messages)>>)))]

\* A plausible slip: lista.insert(0, bloco) instead of lista.append(bloco).
salvar_interacoes_no_inicio(messages, file, data_hora) ==
    LET lido == LerLista(file)
    IN  IF lido.raised
        THEN [raised |-> TRUE, file |-> file]
        ELSE [raised |-> FALSE,
              file |-> File(json_dumps(JList(<<Bloco(data_hora, messages)>>
                                             \o lido.lista)))]

\* salvar_interacoes(messages, path): [raised, file], the file afterwards.
salvar_interacoes(messages, file, data_hora) ==
    LET lido == LerLista(file)
    IN  IF lido.raised
        THEN [raised |-> TRUE, file |-> file]
        ELSE [raised |-> FALSE,
              file |-> File(json_dumps(JList(Append(lido.lista,
                                                     Bloco(data_hora, messages)))))]

\* ------------------------------------------------------------------------
\* The llm
\* ------------------------------------------------------------------------
\* What the model answers: plain text, text with control characters, and a
\* structured payload (a list of content blocks, given by the characters of
\* its str(): a block whose text has two spaces).
Replies ==
    <<Text(<<"o", "k">>),
      Text(<<"x", "\n", " ", "y">>),
      Payload(<<"[", "'", " ", " ", "'", "]">>)>>

MessageWeight(m) ==
    Len(m.content.chars) + (IF m.type = "HumanMessage" THEN 1 ELSE 2)

RECURSIVE HistoryCode(_, _)
HistoryCode(messages, i) ==
    IF i > Len(messages) THEN 0
    ELSE i * MessageWeight(messages[i]) + HistoryCode(messages, i + 1)

\* llm.invoke(messages) when it returns: one AIMessage, a function of the
\* types and contents of the whole history (never of the ids), with the id
\* of its run.
llm_invoke(seed, messages, run_id) ==
    Message("AIMessage",
            Replies[((seed + HistoryCode(messages, 1)) % Len(Replies)) + 1],
            run_id)

\* call_llm(state): the update {"messages": [llm_result]}
call_llm(seed, messages, run_id) == <<llm_invoke(seed, messages, run_id)>>

\* ------------------------------------------------------------------------
\* graph.invoke
\* ------------------------------------------------------------------------
\* ex001, builder.compile(): the channel starts empty at every invoke, the
\* input is reduced into it, call_llm runs, its update is reduced into it.
\*   afterInput  the channel once the input is written
\*   result      the channel at END (when llm.invoke returns)
graph_invoke(input, seed, base) ==
    LET afterInput == add_messages(<<>>, input, base).value
        run_id == base + NoIdCount(input) + 1
        update == call_llm(seed, afterInput, run_id)
    IN  [afterInput |-> afterInput,
         result |-> add_messages(afterInput, update, run_id).value]

\* A plausible slip: the checkpointer keeps one slot for all thread ids.
get_tuple_any_thread(store, thread_id) ==
    IF DOMAIN store = {} THEN <<>>
    ELSE store[CHOOSE k \in DOMAIN store : \A j \in DOMAIN store : k <= j]

\* A plausible slip: the graph is compiled without its checkpointer.
get_tuple_forgets(store, thread_id) == <<>>

\* checkpointer.get_tuple(config): the messages of the latest checkpoint of
\* the thread, none for a thread the checkpointer has never seen.
get_tuple(store, thread_id) ==
    IF thread_id \in DOMAIN store THEN store[thread_id] ELSE <<>>

\* A plausible slip: a checkpointer whose put stores nothing.
put_descarta(store, thread_id, messages) == store

\* checkpointer.put(config, checkpoint)
put(store, thread_id, messages) ==
    [k \in DOMAIN store \cup {thread_id} |->
        IF k = thread_id THEN messages ELSE store[k]]

\* ex002, builder.compile(checkpointer=checkpointer): the channel starts
\* from the thread's latest checkpoint; the loop checkpoints the channel once
\* the input is written (source "input") and again after call_llm.
graph_invoke_config(store, thread_id, input, seed, base) ==
    LET loaded == get_tuple(store, thread_id)
        afterInput == add_messages(loaded, input, base).value
        run_id == base + NoIdCount(input) + 1
        update == call_llm(seed, afterInput, run_id)
    IN  [loaded |-> loaded,
         afterInput |-> afterInput,
         result |-> add_messages(afterInput, update, run_id).value]

\* ------------------------------------------------------------------------
\* The interactive loops
\* ------------------------------------------------------------------------
\* threading.get_ident() of the runs of ex002's loop that share one
\* checkpointer.
ThreadIds == {1, 2}
\* The thread id of the main thread, the one config is built with.
MainThread == CHOOSE t \in ThreadIds : \A u \in ThreadIds : t <= u

\* Ids drawn in different runs never meet: uuid4 of ex001 are 1..IdStride-1,
\* those of thread k are k * IdStride + 1 .. k * IdStride + IdStride - 1.
IdStride == 2 * MaxTurns + 3
ThreadOfId(id) == id \div IdStride

\* A plausible slip: the line is compared as typed, without lower().
lower_como_digitado(chars) == chars

Upper == <<"A", "E", "H", "I", "Q", "R", "S", "T", "U", "X">>
LowerCase == <<"a", "e", "h", "i", "q", "r", "s", "t", "u", "x">>

\* str.lower()
lower(chars) ==
    [i \in 1..Len(chars) |->
        IF \E j \in 1..Len(Upper) : Upper[j] = chars[i]
        THEN LowerCase[CHOOSE j \in 1..Len(Upper) : Upper[j] = chars[i]]
        ELSE chars[i]]

\* ["sair", "exit", "quit", "q"]
ExitKeywords ==
    {<<"s", "a", "i", "r">>, <<"e", "x", "i", "t">>, <<"q", "u", "i", "t">>, <<"q">>}

\* Lines input() returns: a message with control characters, a keyword
\* followed by a space, and keywords in lower, mixed and upper case.
Lines ==
    {<<"a", "\t", " ", "b">>, <<"q", " ">>,
     <<"q">>, <<"S", "a", "i", "r">>, <<"E", "X", "I", "T">>}

\* datetime.now().strftime("%Y-%m-%d %H:%M:%S")
Clock == {"2026-01-01 10:00:00", "2026-01-01 10:00:01"}

\* The exit branch: "if current_messages: salvar_interacoes(current_messages)".
\* [pc, and the archive variables afterwards].
ExitBranch(current_messages, data_hora) ==
    IF current_messages = <<>>
    THEN [pc |-> "done", arquivo |-> arquivo, salvos |-> salvos,
          tentativas |-> tentativas, falhas |-> falhas]
    ELSE LET r == salvar_interacoes(current_messages, arquivo, data_hora)
         IN  IF r.raised
             THEN [pc |-> "save_error", arquivo |-> arquivo, salvos |-> salvos,
                   tentativas |-> tentativas + 1, falhas |-> falhas + 1]
             ELSE [pc |-> "done", arquivo |-> r.file,
                   salvos |-> Append(salvos, Bloco(data_hora, current_messages)),
                   tentativas |-> tentativas + 1, falhas |-> falhas]

\* ---- ex001 ----
ex001_vars == <<pc1, current_messages1, typed1, uuid1, lido1>>
ex002_vars == <<pc2, current_messages2, typed2, uuid2, lido2, storage, llm_seen>>

\* One pass of ex001's loop that reads an exit keyword.
Ex001Exit ==
    /\ pc1 = "input"
    /\ \E human_message \in Lines, data_hora \in Clock :
          /\ lower(human_message) \in ExitKeywords
          /\ LET e == ExitBranch(current_messages1, data_hora)
             IN  /\ pc1' = e.pc
                 /\ lido1' = Append(lido1, human_message)
                 /\ arquivo' = e.arquivo
                 /\ salvos' = e.salvos
                 /\ tentativas' = e.tentativas
                 /\ falhas' = e.falhas
    /\ UNCHANGED <<current_messages1, typed1, uuid1, inicial>>
    /\ UNCHANGED <<ex002_vars, llm_seed, rvars, xvars>>

\* One pass of ex001's loop that submits a turn, llm.invoke returning.
Ex001Turn ==
    /\ pc1 = "input"
    /\ Len(typed1) < MaxTurns
    /\ \E human_message \in Lines :
          /\ lower(human_message) \notin ExitKeywords
          /\ LET extended == Append(current_messages1,
                                    HumanMessage(Text(human_message)))
                 run == graph_invoke(extended, llm_seed, uuid1)
             IN  /\ current_messages1' = run.result
                 /\ typed1' = Append(typed1, human_message)
                 /\ lido1' = Append(lido1, human_message)
                 /\ uuid1' = uuid1 + 2
    /\ UNCHANGED <<pc1, ex002_vars, llm_seed, avars, rvars, xvars>>

\* A plausible slip: graph.invoke inside a try whose handler archives the
\* transcript before the exception leaves the loop.
Ex001TurnFails_salva ==
    /\ pc1 = "input"
    /\ Len(typed1) < MaxTurns
    /\ \E human_message \in Lines, data_hora \in Clock :
          /\ lower(human_message) \notin ExitKeywords
          /\ LET extended == Append(current_messages1,
                                    HumanMessage(Text(human_message)))
                 run == graph_invoke(extended, llm_seed, uuid1)
                 e == ExitBranch(run.afterInput, data_hora)
             IN  /\ current_messages1' = run.afterInput
                 /\ typed1' = Append(typed1, human_message)
                 /\ lido1' = Append(lido1, human_message)
                 /\ uuid1' = uuid1 + 1
                 /\ arquivo' = e.arquivo
                 /\ salvos' = e.salvos
                 /\ tentativas' = e.tentativas
                 /\ falhas' = e.falhas
    /\ pc1' = "llm_error"
    /\ UNCHANGED <<ex002_vars, llm_seed, inicial, rvars, xvars>>

\* One pass of ex001's loop that submits a turn, llm.invoke raising: the
\* exception leaves graph.invoke and the loop; current_messages was extended
\* before the call (and add_messages gave the new message its id).
Ex001TurnFails ==
    /\ pc1 = "input"
    /\ Len(typed1) < MaxTurns
    /\ \E human_message \in Lines :
          /\ lower(human_message) \notin ExitKeywords
          /\ LET extended == Append(current_messages1,
                                    HumanMessage(Text(human_message)))
                 run == graph_invoke(extended, llm_seed, uuid1)
             IN  /\ current_messages1' = run.afterInput
                 /\ typed1' = Append(typed1, human_message)
                 /\ lido1' = Append(lido1, human_message)
                 /\ uuid1' = uuid1 + 1
    /\ pc1' = "llm_error"
    /\ UNCHANGED <<ex002_vars, llm_seed, avars, rvars, xvars>>

\* ---- ex002 ----
\* One pass of ex002's loop that reads an exit keyword.
Ex002Exit(t) ==
    /\ pc2[t] = "input"
    /\ \E human_message \in Lines, data_hora \in Clock :
          /\ lower(human_message) \in ExitKeywords
          /\ LET e == ExitBranch(current_messages2[t], data_hora)
             IN  /\ pc2' = [pc2 EXCEPT ![t] = e.pc]
                 /\ lido2' = [lido2 EXCEPT ![t] = Append(@, human_message)]
                 /\ arquivo' = e.arquivo
                 /\ salvos' = e.salvos
                 /\ tentativas' = e.tentativas
                 /\ falhas' = e.falhas
    /\ UNCHANGED <<current_messages2, typed2, uuid2, storage, llm_seen, inicial>>
    /\ UNCHANGED <<ex001_vars, llm_seed, rvars, xvars>>

\* One pass of ex002's loop that submits a turn, llm.invoke returning.
Ex002Turn(t) ==
    /\ pc2[t] = "input"
    /\ Len(typed2[t]) < MaxTurns
    /\ \E human_message \in Lines :
          /\ lower(human_message) \notin ExitKeywords
          /\ LET run == graph_invoke_config(storage, t,
                            <<HumanMessage(Text(human_message))>>,
                            llm_seed, t * IdStride + uuid2[t])
             IN  /\ storage' = put(storage, t, run.result)
                 /\ llm_seen' = [llm_seen EXCEPT ![t] = run.afterInput]
                 /\ current_messages2' = [current_messages2 EXCEPT ![t] = run.result]
                 /\ typed2' = [typed2 EXCEPT ![t] = Append(@, human_message)]
                 /\ lido2' = [lido2 EXCEPT ![t] = Append(@, human_message)]
                 /\ uuid2' = [uuid2 EXCEPT ![t] = @ + 2]
    /\ UNCHANGED <<pc2, ex001_vars, llm_seed, avars, rvars, xvars>>

\* One pass of ex002's loop that submits a turn, llm.invoke raising: the
\* exception leaves graph.invoke and the loop; the checkpoint of the input
\* is already put, current_messages is not assigned.
Ex002TurnFails(t) ==
    /\ pc2[t] = "input"
    /\ Len(typed2[t]) < MaxTurns
    /\ \E human_message \in Lines :
          /\ lower(human_message) \notin ExitKeywords
          /\ LET run == graph_invoke_config(storage, t,
                            <<HumanMessage(Text(human_message))>>,
                            llm_seed, t * IdStride + uuid2[t])
             IN  /\ storage' = put(storage, t, run.afterInput)
                 /\ llm_seen' = [llm_seen EXCEPT ![t] = run.afterInput]
                 /\ typed2' = [typed2 EXCEPT ![t] = Append(@, human_message)]
                 /\ lido2' = [lido2 EXCEPT ![t] = Append(@, human_message)]
                 /\ uuid2' = [uuid2 EXCEPT ![t] = @ + 1]
    /\ pc2' = [pc2 EXCEPT ![t] = "llm_error"]
    /\ UNCHANGED <<current_messages2, ex001_vars, llm_seed, avars, rvars, xvars>>

\* ------------------------------------------------------------------------
\* Specification of the two agents and the archive file they share
\* ------------------------------------------------------------------------
ReducerIdle ==
    /\ channel = <<>>
    /\ batch = <<>>
    /\ before = <<>>
    /\ reduced = "idle"

SessionsInit ==
    /\ pc1 = "input"
    /\ current_messages1 = <<>>
    /\ typed1 = <<>>
    /\ uuid1 = 0
    /\ lido1 = <<>>
    /\ pc2 = [t \in ThreadIds |-> "input"]
    /\ current_messages2 = [t \in ThreadIds |-> <<>>]
    /\ typed2 = [t \in ThreadIds |-> <<>>]
    /\ uuid2 = [t \in ThreadIds |-> 0]
    /\ lido2 = [t \in ThreadIds |-> <<>>]
    /\ storage = <<>>
    /\ llm_seen = [t \in ThreadIds |-> <<>>]

\* The two calls of salvar_interacoes that can run at once.
Writers == {1, 2}

WritersIdle ==
    /\ wpc = [w \in Writers |-> "start"]
    /\ wlista = [w \in Writers |-> <<>>]
    /\ wbloco = [w \in Writers |-> <<>>]
    /\ ordem = <<>>

NormalizerIdle ==
    /\ conteudo = Text(<<>>)
    /\ limpo = <<>>
    /\ limpo2 = <<>>
    /\ normalizado = FALSE

ArchiveCounters ==
    /\ inicial = arquivo
    /\ salvos = <<>>
    /\ tentativas = 0
    /\ falhas = 0

\* The archive file when an agent starts: missing, text that is no JSON,
\* or bytes that are no text.
StartFiles == {MissingFile, File(<<Lex("garbage")>>), File(<<Lex("badbyte")>>)}

Init ==
    /\ ReducerIdle
    /\ SessionsInit
    /\ llm_seed \in 0..MaxSeed
    /\ arquivo \in StartFiles
    /\ ArchiveCounters
    /\ WritersIdle
    /\ NormalizerIdle

\* The two agents, each run once: ex001, and ex002 under the thread id of
\* its main thread.
Next ==
    \/ Ex001Exit
    \/ Ex001Turn
    \/ Ex001TurnFails
    \/ Ex002Exit(MainThread)
    \/ Ex002Turn(MainThread)
    \/ Ex002TurnFails(MainThread)

Spec == Init /\ [][Next]_vars

\* ex002's graph and checkpointer used from several threads, each running
\* the loop under its own thread id.
ThreadsNext ==
    \/ \E t \in ThreadIds : Ex002Exit(t)
    \/ \E t \in ThreadIds : Ex002Turn(t)
    \/ \E t \in ThreadIds : Ex002TurnFails(t)

SpecThreads == Init /\ [][ThreadsNext]_vars

\* ------------------------------------------------------------------------
\* salvar_interacoes on its own, on any archive file
\* ------------------------------------------------------------------------
\* Transcripts handed to salvar_interacoes.
ArchivedTranscripts ==
    {<<Message("HumanMessage", Text(<<"h", "i">>), 1),
       Message("AIMessage", Text(<<"o", "k">>), 2)>>,
     <<Message("HumanMessage", Text(<<"a", "\t", " ", "b">>), 1),
       Message("AIMessage", Payload(<<"[", "'", " ", " ", "'", "]">>), 2)>>}

\* A bloco an earlier run wrote.
OldBloco ==
    Bloco("2025-12-31 23:59:59",
          <<Message("HumanMessage", Text(<<"h", "i">>), 1),
            Message("AIMessage", Text(<<"o", "k">>), 2)>>)

\* What the text of the file is made of.
Lexemes ==
    {Lex("["), Lex("]"), Lex(","), Lex(" "), Lex("garbage"), Lex("badbyte"),
     ValueLex([scalar |-> "7"]), ValueLex(OldBloco)}

ArchiveFiles ==
    {MissingFile} \cup {File(bytes) : bytes \in SeqsUpTo(Lexemes, MaxFileLen)}

ArchiveInit ==
    /\ ReducerIdle
    /\ SessionsInit
    /\ llm_seed = 0
    /\ arquivo \in ArchiveFiles
    /\ ArchiveCounters
    /\ WritersIdle
    /\ NormalizerIdle

\* One call salvar_interacoes(messages), returning or raising.
Salvar ==
    /\ tentativas < MaxSaves
    /\ \E messages \in ArchivedTranscripts, data_hora \in Clock :
          LET r == salvar_interacoes(messages, arquivo, data_hora)
          IN  /\ arquivo' = r.file
              /\ tentativas' = tentativas + 1
              /\ falhas' = IF r.raised THEN falhas + 1 ELSE falhas
              /\ salvos' = IF r.raised THEN salvos
                           ELSE Append(salvos, Bloco(data_hora, messages))
    /\ UNCHANGED <<inicial, svars, rvars, xvars>>

ArchiveNext == Salvar

SpecArchive == ArchiveInit /\ [][ArchiveNext]_vars

\* ------------------------------------------------------------------------
\* Two calls of salvar_interacoes on the same path, step by step
\* ------------------------------------------------------------------------
\* The archive file when the two calls start.
WriterFiles ==
    {MissingFile,
     File(<<Lex("garbage")>>),
     File(<<Lex("badbyte")>>),
     File(<<ValueLex([scalar |-> "7"])>>),
     File(json_dumps(JList(<<>>))),
     File(json_dumps(JList(<<OldBloco>>)))}

WritersInit ==
    /\ ReducerIdle
    /\ SessionsInit
    /\ llm_seed = 0
    /\ arquivo \in WriterFiles
    /\ ArchiveCounters
    /\ WritersIdle
    /\ NormalizerIdle

Event(w, op) == [w |-> w, op |-> op]

\* A plausible slip: lista.insert(0, bloco) before the file is written.
EscritaDe_no_inicio(lista, bloco) == File(json_dumps(JList(<<bloco>> \o lista)))

\* lista.append(bloco); the text path.write_text(json.dumps(lista)) writes.
EscritaDe(lista, bloco) == File(json_dumps(JList(Append(lista, bloco))))

\* The call builds its bloco and reads lista from the file (or starts from
\* the empty list); an exception of the read leaves the call.
Ler(w) ==
    /\ wpc[w] = "start"
    /\ \E messages \in ArchivedTranscripts, data_hora \in Clock :
          wbloco' = [wbloco EXCEPT ![w] = Bloco(data_hora, messages)]
    /\ LET lido == LerLista(arquivo)
       IN  /\ wpc' = [wpc EXCEPT ![w] = IF lido.raised THEN "raised" ELSE "read"]
           /\ wlista' = [wlista EXCEPT ![w] = lido.lista]
           /\ tentativas' = IF lido.raised THEN tentativas + 1 ELSE tentativas
           /\ falhas' = IF lido.raised THEN falhas + 1 ELSE falhas
    /\ ordem' = Append(ordem, Event(w, "read"))
    /\ UNCHANGED <<arquivo, inicial, salvos, svars, rvars, nvars>>

\* path.write_text opens the file for writing, which truncates it.
Abrir(w) ==
    /\ wpc[w] = "read"
    /\ wpc' = [wpc EXCEPT ![w] = "open"]
    /\ arquivo' = File(<<>>)
    /\ ordem' = Append(ordem, Event(w, "open"))
    /\ UNCHANGED <<wlista, wbloco, inicial, salvos, tentativas, falhas>>
    /\ UNCHANGED <<svars, rvars, nvars>>

\* path.write_text writes the dump of lista with the bloco appended.
Escrever(w) ==
    /\ wpc[w] = "open"
    /\ wpc' = [wpc EXCEPT ![w] = "done"]
    /\ arquivo' = EscritaDe(wlista[w], wbloco[w])
    /\ salvos' = Append(salvos, wbloco[w])
    /\ tentativas' = tentativas + 1
    /\ ordem' = Append(ordem, Event(w, "write"))
    /\ UNCHANGED <<wlista, wbloco, inicial, falhas, svars, rvars, nvars>>

WritersNext ==
    \/ \E w \in Writers : Ler(w)
    \/ \E w \in Writers : Abrir(w)
    \/ \E w \in Writers : Escrever(w)

SpecWriters == WritersInit /\ [][WritersNext]_vars

\* ------------------------------------------------------------------------
\* The reducer on its own: one messages channel, one update
\* ------------------------------------------------------------------------
Contents == {Text(<<"a">>), Text(<<"b">>)}

\* Messages a caller can write: with or without an explicit id.
BatchMessages ==
    {Message("HumanMessage", c, i) : c \in Contents, i \in {NoId} \cup 1..MaxId}
    \cup {Message("AIMessage", Text(<<"a">>), i) : i \in {NoId} \cup 1..MaxId}
    \cup {RemoveMessage(i) : i \in {REMOVE_ALL_MESSAGES} \cup 1..MaxId}

\* Values the channel holds: every message has an id, no id twice.
ChannelValues ==
    {s \in SeqsUpTo({m \in BatchMessages : m.id # NoId /\ m.type # "RemoveMessage"},
                    MaxBatch) :
        \A i, j \in 1..Len(s) : s[i].id = s[j].id => i = j}

ReducerInit ==
    /\ channel \in ChannelValues
    /\ batch = <<>>
    /\ before = <<>>
    /\ reduced = "idle"
    /\ SessionsInit
    /\ llm_seed = 0
    /\ arquivo = MissingFile
    /\ ArchiveCounters
    /\ WritersIdle
    /\ NormalizerIdle

\* BinaryOperatorAggregate.update: channel = add_messages(channel, batch),
\* the fresh uuids being ids no caller gave.
Update ==
    /\ reduced = "idle"
    /\ \E right \in SeqsUpTo(BatchMessages, MaxBatch) :
          LET res == add_messages(channel, right, MaxId)
          IN  /\ batch' = right
              /\ before' = channel
              /\ reduced' = IF res.raised THEN "raised" ELSE "merged"
              /\ channel' = IF res.raised THEN channel ELSE res.value
    /\ UNCHANGED <<svars, avars, xvars>>

ReducerNext == Update

SpecReducer == ReducerInit /\ [][ReducerNext]_vars

\* ------------------------------------------------------------------------
\* _limpar_conteudo on its own, on any content
\* ------------------------------------------------------------------------
\* Characters of the texts: two letters, the space, the three characters
\* the function replaces and one whitespace character it does not replace.
Chars == {"a", "b", " ", "\n", "\r", "\t", "\f"}

\* "Hello\nWorld\t  there"
HelloWorld ==
    Text(<<"H", "e", "l", "l", "o", "\n", "W", "o", "r", "l", "d", "\t",
           " ", " ", "t", "h", "e", "r", "e">>)

\* Contents of a message: str, or a list of content blocks.
NormalizerContents ==
    {Text(s) : s \in SeqsUpTo(Chars, MaxContentLen)}
        \cup {HelloWorld, Payload(<<"[", "'", " ", " ", "'", "]">>)}

NormalizerInit ==
    /\ ReducerIdle
    /\ SessionsInit
    /\ llm_seed = 0
    /\ arquivo = MissingFile
    /\ ArchiveCounters
    /\ WritersIdle
    /\ conteudo \in NormalizerContents
    /\ limpo = <<>>
    /\ limpo2 = <<>>
    /\ normalizado = FALSE

\* limpo = _limpar_conteudo(content); limpo2 = _limpar_conteudo(limpo)
Normalizar ==
    /\ ~normalizado
    /\ limpo' = _limpar_conteudo(conteudo)
    /\ limpo2' = _limpar_conteudo(Text(limpo'))
    /\ normalizado' = TRUE
    /\ UNCHANGED <<conteudo, rvars, svars, avars, wvars>>

NormalizerNext == Normalizar

SpecNormalize == NormalizerInit /\ [][NormalizerNext]_vars

\* ------------------------------------------------------------------------
\* Properties
\* ------------------------------------------------------------------------
IsPrefix(s, t) == Len(s) <= Len(t) /\ SubSeq(t, 1, Len(s)) = s
Last(s) == s[Len(s)]

\* a and b are the same messages in the same order; an id given in b is
\* kept in a.
SameMessages(a, b) ==
    /\ Len(a) = Len(b)
    /\ StripIds(a) = StripIds(b)
    /\ \A i \in 1..Len(b) : b[i].id # NoId => a[i].id = b[i].id

\* The batch last written holds no RemoveMessage and no id that the channel
\* or another message of the batch already carries.
FreshBatch ==
    /\ \A i \in 1..Len(batch) : batch[i].type # "RemoveMessage"
    /\ \A i, j \in 1..Len(batch) :
          batch[i].id # NoId /\ batch[i].id = batch[j].id => i = j
    /\ \A i \in 1..Len(batch) :
          batch[i].id # NoId => batch[i].id \notin IdsOf(before)

\* C1 as stated: whatever the transcript and the batch, the reducer yields
\* the transcript followed by the batch; nothing is deduplicated, reordered,
\* replaced or dropped.
C1_AppendsEveryBatch ==
    reduced # "idle" =>
        /\ reduced = "merged"
        /\ SameMessages(channel, before \o batch)

\* C1 amended: when the batch holds no RemoveMessage and no id already
\* carried by the transcript or by another message of the batch, the reducer
\* yields the transcript followed by the batch, every message in its
\* original order, the messages without id getting fresh ids; an empty batch
\* leaves the transcript unchanged.
C1_AppendsFreshBatch ==
    (reduced # "idle" /\ FreshBatch) =>
        /\ reduced = "merged"
        /\ SameMessages(channel, before \o batch)
        /\ SubSeq(channel, 1, Len(before)) = before
        /\ \A i, j \in 1..Len(channel) :
              channel[i].id # NoId /\ (channel[i].id = channel[j].id => i = j)

C1_Witness ==
    /\ reduced = "merged"
    /\ FreshBatch
    /\ Len(before) >= 1
    /\ Len(batch) >= 2
    /\ \E i \in 1..Len(batch) : batch[i].id = NoId
    /\ \E i \in 1..Len(batch) : batch[i].id # NoId

\* C2: after the same lines submitted as turns, every turn answered, ex001
\* (stateless: the caller passes its whole transcript) and ex002 (stateful:
\* the caller passes the new message, the checkpoint gives the history) hold
\* the same transcript.
C2_ModeEquivalence ==
    \A t \in ThreadIds :
        (pc1 # "llm_error" /\ pc2[t] # "llm_error" /\ typed1 = typed2[t]) =>
            StripIds(current_messages1) = StripIds(current_messages2[t])

C2_Witness ==
    /\ pc1 = "input"
    /\ pc2[MainThread] = "input"
    /\ typed1 = typed2[MainThread]
    /\ Len(typed1) >= 2
    /\ typed1[1] # typed1[2]

\* C3: a turn whose llm.invoke fails changes neither the caller's transcript
\* nor the checkpoint of the thread.
C3_NoPartialMutation ==
    [][/\ (pc1 = "input" /\ pc1' = "llm_error") =>
              current_messages1' = current_messages1
       /\ \A t \in ThreadIds :
              (pc2[t] = "input" /\ pc2'[t] = "llm_error") =>
                  /\ current_messages2'[t] = current_messages2[t]
                  /\ storage' = storage]_vars

\* The lines of the HumanMessages of a transcript, in order.
HumanLines(messages) ==
    LET humans == SelectSeq(messages, LAMBDA m : m.type = "HumanMessage")
    IN  [i \in 1..Len(humans) |-> humans[i].content.chars]

\* C4: the transcript checkpointed or returned under a thread id holds only
\* messages submitted or generated in turns under that thread id.
C4_KeyIsolation ==
    \A t \in ThreadIds :
        /\ \A i \in 1..Len(current_messages2[t]) :
              ThreadOfId(current_messages2[t][i].id) = t
        /\ t \in DOMAIN storage =>
              /\ \A i \in 1..Len(storage[t]) : ThreadOfId(storage[t][i].id) = t
              /\ HumanLines(storage[t]) = typed2[t]

C4_Witness ==
    \E t, u \in DOMAIN storage :
        /\ t # u
        /\ Len(typed2[t]) >= 2
        /\ Len(typed2[u]) >= 1
        /\ pc2[t] = "input"
        /\ pc2[u] = "input"
        /\ typed2[t][1] # typed2[u][1]

\* C5: the transcript a loop holds only grows: what it held before a step is
\* a prefix of what it holds after it.
C5_TranscriptOnlyGrows ==
    [][/\ IsPrefix(current_messages1, current_messages1')
       /\ \A t \in ThreadIds :
              IsPrefix(current_messages2[t], current_messages2'[t])]_vars

C5_Witness ==
    /\ Len(current_messages1) >= 4
    /\ Len(current_messages2[MainThread]) >= 4

\* C6: a turn under a thread id with completed turns starts from the
\* transcript its last completed turn saved: the llm is sent that transcript
\* followed by the new HumanMessage, and what is saved and returned is that
\* sequence followed by the reply.
C6_ReadYourWrites ==
    [][\A t \in ThreadIds :
          (/\ t \in DOMAIN storage
           /\ pc2[t] = "input"
           /\ pc2'[t] = "input"
           /\ typed2'[t] # typed2[t]) =>
              LET saved == storage[t]
                  n == Len(saved)
              IN  /\ saved = current_messages2[t]
                  /\ Len(llm_seen'[t]) = n + 1
                  /\ SubSeq(llm_seen'[t], 1, n) = saved
                  /\ StripId(llm_seen'[t][n + 1]) =
                        StripId(HumanMessage(Text(Last(typed2'[t]))))
                  /\ Len(storage'[t]) = n + 2
                  /\ SubSeq(storage'[t], 1, n + 1) = llm_seen'[t]
                  /\ storage'[t][n + 2].type = "AIMessage"
                  /\ current_messages2'[t] = storage'[t]]_vars

C6_Witness ==
    \E t \in ThreadIds :
        /\ Len(typed2[t]) >= 2
        /\ pc2[t] = "input"
        /\ Len(current_messages2[t]) >= 4

\* C7: a turn under a thread id the checkpointer has never seen starts from
\* the empty transcript and returns the new HumanMessage followed by the
\* reply to it alone.
C7_UnknownThreadStartsEmpty ==
    [][\A t \in ThreadIds :
          (/\ t \notin DOMAIN storage
           /\ pc2[t] = "input"
           /\ pc2'[t] = "input"
           /\ typed2'[t] # typed2[t]) =>
              LET human == HumanMessage(Text(Last(typed2'[t])))
              IN  /\ StripIds(current_messages2'[t]) =
                        <<StripId(human),
                          StripId(llm_invoke(llm_seed, <<human>>, NoId))>>
                  /\ t \in DOMAIN storage'
                  /\ storage'[t] = current_messages2'[t]]_vars

C7_Witness ==
    \E t, u \in ThreadIds :
        /\ t # u
        /\ Len(typed2[u]) >= 2
        /\ u \in DOMAIN storage
        /\ Len(typed2[t]) = 1
        /\ pc2[t] = "input"
        /\ Len(current_messages2[t]) = 2

\* The file holds text json.loads rejects.
Corrupt(file) ==
    /\ file.exists
    /\ Len(file.bytes) > 0
    /\ ~UndecodableText(file.bytes)
    /\ ~json_loads(file.bytes).ok

\* The file is missing or has size zero.
Blank(file) == ~file.exists \/ Len(file.bytes) = 0

\* The file exists and its bytes cannot be decoded as text.
Unreadable(file) ==
    file.exists /\ Len(file.bytes) > 0 /\ UndecodableText(file.bytes)

\* A record with the keys of a bloco.
IsArchiveEntry(v) ==
    DOMAIN v = {"data_hora", "model", "temperature", "max_tokens", "top_p",
                "messages"}

\* The array the text of the file parses to.
ArchiveList(file) == json_loads(file.bytes).value.list

IsJsonArray(file) ==
    /\ file.exists
    /\ ~UndecodableText(file.bytes)
    /\ json_loads(file.bytes).ok
    /\ isinstance_list(json_loads(file.bytes).value)

\* C8: on a file whose text is no JSON, or that is missing or empty,
\* salvar_interacoes does not raise and leaves a one-element array holding
\* the new bloco alone.
C8_CorruptArchiveReplaced ==
    ((Corrupt(inicial) \/ Blank(inicial)) /\ tentativas >= 1) =>
        /\ falhas = 0
        /\ IsJsonArray(arquivo)
        /\ tentativas = 1 => ArchiveList(arquivo) = <<salvos[1]>>

C8_Witness ==
    /\ Corrupt(inicial)
    /\ Len(inicial.bytes) >= 2
    /\ tentativas = 1
    /\ falhas = 0

\* C9: on a file that exists and cannot be read as text, salvar_interacoes
\* does not fail and writes an array holding the new bloco.
C9_UnreadableArchiveRecovered ==
    (Unreadable(inicial) /\ tentativas >= 1) =>
        /\ falhas = 0
        /\ IsJsonArray(arquivo)
        /\ ArchiveList(arquivo) = salvos

\* C10 as stated: after completed calls, from any initial file, the file is
\* a JSON array and every element of it is an Archive Entry.
C10_ArrayOfEntriesAlways ==
    (tentativas >= 1 /\ falhas = 0) =>
        /\ IsJsonArray(arquivo)
        /\ \A i \in 1..Len(ArchiveList(arquivo)) :
              IsArchiveEntry(ArchiveList(arquivo)[i])

\* The initial file holds nothing but Archive Entries.
OnlyEntriesInitially ==
    \/ Blank(inicial)
    \/ Corrupt(inicial)
    \/ /\ IsJsonArray(inicial)
       /\ \A i \in 1..Len(ArchiveList(inicial)) :
             IsArchiveEntry(ArchiveList(inicial)[i])

\* C10 amended: after completed calls, from any initial file, the file is a
\* JSON array that ends with the blocos of the calls, in order, each an
\* Archive Entry; every element is an Archive Entry when the initial file
\* was missing, empty, corrupt or an array of Archive Entries (a JSON value
\* of another kind found in the initial file is kept as an element).
C10_ArrayEndingWithEntries ==
    (tentativas >= 1 /\ falhas = 0) =>
        /\ IsJsonArray(arquivo)
        /\ LET lista == ArchiveList(arquivo)
               n == Len(lista)
               k == Len(salvos)
           IN  /\ k = tentativas
               /\ n >= k
               /\ SubSeq(lista, n - k + 1, n) = salvos
               /\ \A i \in 1..k : IsArchiveEntry(salvos[i])
               /\ OnlyEntriesInitially =>
                     \A i \in 1..n : IsArchiveEntry(lista[i])

C10_Witness ==
    /\ IsJsonArray(inicial)
    /\ Len(ArchiveList(inicial)) >= 1
    /\ OnlyEntriesInitially
    /\ tentativas >= 2
    /\ falhas = 0

\* C11: on a file holding a JSON array of n elements, one call of
\* salvar_interacoes leaves the array of those n elements, unchanged and in
\* the same order, followed by the new bloco: no call modifies or removes
\* what an earlier call wrote.
C11_AppendOnly ==
    [][(tentativas' = tentativas + 1 /\ IsJsonArray(arquivo)) =>
          /\ falhas' = falhas
          /\ IsJsonArray(arquivo')
          /\ Len(ArchiveList(arquivo')) = Len(ArchiveList(arquivo)) + 1
          /\ ArchiveList(arquivo') =
                Append(ArchiveList(arquivo), Last(salvos'))
          /\ IsPrefix(salvos, salvos')]_vars

C11_Witness ==
    /\ IsJsonArray(inicial)
    /\ Len(ArchiveList(inicial)) = 1
    /\ falhas = 0
    /\ Len(salvos) = 2
    /\ salvos[1] # salvos[2]
    /\ Len(ArchiveList(arquivo)) = 3

\* The words of a text: its maximal runs of characters that are no
\* whitespace, in order.
RECURSIVE WordsFrom(_, _, _)
WordsFrom(chars, i, word) ==
    IF i > Len(chars)
    THEN IF word = <<>> THEN <<>> ELSE <<word>>
    ELSE IF chars[i] \in Whitespace
         THEN (IF word = <<>> THEN <<>> ELSE <<word>>)
                  \o WordsFrom(chars, i + 1, <<>>)
         ELSE WordsFrom(chars, i + 1, Append(word, chars[i]))

Words(chars) == WordsFrom(chars, 1, <<>>)

\* The words joined by one space each.
RECURSIVE JoinWords(_)
JoinWords(words) ==
    IF words = <<>> THEN <<>>
    ELSE IF Len(words) = 1 THEN words[1]
    ELSE words[1] \o <<" ">> \o JoinWords(Tail(words))

\* C12: for every text, _limpar_conteudo returns a text with no newline,
\* carriage return or tab, no two adjacent spaces and no whitespace at
\* either end, with the same words in the same order; where the only
\* whitespace of the text is space, newline, carriage return and tab the
\* result is the words joined by single spaces; "Hello\nWorld\t  there"
\* becomes "Hello World there"; and normalising the result again changes
\* nothing.
C12_TextNormalized ==
    (normalizado /\ conteudo.text) =>
        /\ \A i \in 1..Len(limpo) : limpo[i] \notin {"\n", "\r", "\t"}
        /\ \A i \in 1..(Len(limpo) - 1) :
               ~(limpo[i] = " " /\ limpo[i + 1] = " ")
        /\ limpo # <<>> =>
               (limpo[1] \notin Whitespace /\ limpo[Len(limpo)] \notin Whitespace)
        /\ Words(limpo) = Words(conteudo.chars)
        /\ (\A i \in 1..Len(conteudo.chars) : conteudo.chars[i] # "\f") =>
               limpo = JoinWords(Words(conteudo.chars))
        /\ conteudo = HelloWorld =>
               limpo = <<"H", "e", "l", "l", "o", " ", "W", "o", "r", "l", "d",
                         " ", "t", "h", "e", "r", "e">>
        /\ limpo2 = limpo

C12_Witness ==
    /\ normalizado
    /\ conteudo = Text(<<"a", "\t", "\n">>)
    /\ limpo = <<"a">>

\* Characters that are control characters.
ControlChars == {"\n", "\r", "\t", "\f"}

Normalized(chars) ==
    /\ \A i \in 1..Len(chars) : chars[i] \notin ControlChars
    /\ \A i \in 1..(Len(chars) - 1) :
           ~(chars[i] \in Whitespace /\ chars[i + 1] \in Whitespace)

\* C13: every content of every record of the messages of every bloco
\* written to the archive, whether the message's content was text or a
\* structured payload, has no control character and no run of more than
\* one whitespace character.
C13_ArchivedContentsNormalized ==
    \A k \in 1..Len(salvos) :
        \A i \in 1..Len(salvos[k].messages) :
            Normalized(salvos[k].messages[i].content)

\* The sessions that read an exit keyword with a transcript that is not
\* empty: ex001's, and ex002's under each thread id.
Ended(pc) == pc \in {"done", "save_error"}

EndedNonEmpty ==
    (IF Ended(pc1) /\ current_messages1 # <<>> THEN 1 ELSE 0)
        + Cardinality({t \in ThreadIds :
                          Ended(pc2[t]) /\ current_messages2[t] # <<>>})

\* C14: salvar_interacoes is called once for each session that has read an
\* exit keyword with a transcript that is not empty and for no other
\* session, each such session has added exactly one bloco to the archive
\* file, and while there is no such session the file is untouched.
C14_OneEntryPerEndedSession ==
    /\ tentativas = EndedNonEmpty
    /\ Len(salvos) = EndedNonEmpty
    /\ EndedNonEmpty > 0 =>
           /\ IsJsonArray(arquivo)
           /\ Len(ArchiveList(arquivo)) >= Len(salvos)
           /\ SubSeq(ArchiveList(arquivo),
                     Len(ArchiveList(arquivo)) - Len(salvos) + 1,
                     Len(ArchiveList(arquivo))) = salvos
    /\ EndedNonEmpty = 0 => arquivo = inicial

\* The same, for the runs that start on a file whose bytes decode as text.
C14_ReadableStart == Unreadable(inicial) \/ C14_OneEntryPerEndedSession

\* Both calls have returned.
BothDone == \A w \in Writers : wpc[w] = "done"

\* Both calls read the file before either opens it for writing.
BothReadFirst ==
    \A i, j \in 1..Len(ordem) :
        (ordem[i].op = "read" /\ ordem[j].op # "read") => i < j

\* One call runs from its read to its write before the other reads.
OneAtATime ==
    \E a, b \in Writers :
        /\ a # b
        /\ ordem = <<Event(a, "read"), Event(a, "open"), Event(a, "write"),
                     Event(b, "read"), Event(b, "open"), Event(b, "write")>>

\* C15: when two calls of salvar_interacoes on the same path have both
\* returned and both read the file before either wrote it, the array in the
\* file is the prior list followed by the bloco of the call that wrote
\* last alone, the other call's bloco is lost; when the calls ran one at a
\* time, the array is the prior list followed by both blocos in the order
\* of the calls.
C15_LostUpdate ==
    BothDone =>
        LET prior == LerLista(inicial).lista
            first == ordem[1].w
            last == ordem[Len(ordem)].w
        IN  /\ IsJsonArray(arquivo)
            /\ BothReadFirst =>
                   /\ ArchiveList(arquivo) = Append(prior, wbloco[last])
                   /\ Len(ArchiveList(arquivo)) = Len(prior) + 1
            /\ OneAtATime =>
                   ArchiveList(arquivo) = prior \o <<wbloco[first], wbloco[last]>>

C15_Witness ==
    /\ BothDone
    /\ BothReadFirst
    /\ inicial = File(json_dumps(JList(<<OldBloco>>)))
    /\ wbloco[1] # wbloco[2]
    /\ ordem[Len(ordem)].w = 1
    /\ ArchiveList(arquivo) = <<OldBloco, wbloco[1]>>

\* The transcript of the turns typed: for each, the user's message and
\* then one reply of the assistant.
TwoPerTurn(messages, typed) ==
    /\ Len(messages) = 2 * Len(typed)
    /\ \A k \in 1..Len(typed) :
           /\ messages[2 * k - 1].type = "HumanMessage"
           /\ messages[2 * k - 1].content = Text(typed[k])
           /\ messages[2 * k].type = "AIMessage"

\* The archive file holds a bloco with one record for each message, in the
\* order of the transcript.
ArchivedAsEntry(messages) ==
    /\ IsJsonArray(arquivo)
    /\ \E k \in 1..Len(ArchiveList(arquivo)) :
           LET entry == ArchiveList(arquivo)[k]
           IN  /\ IsArchiveEntry(entry)
               /\ entry \in {salvos[j] : j \in 1..Len(salvos)}
               /\ Len(entry.messages) = Len(messages)
               /\ \A i \in 1..Len(messages) :
                      /\ entry.messages[i].type = messages[i].type
                      /\ entry.messages[i].content =
                             _limpar_conteudo(messages[i].content)

SessionArchived(pc, messages, typed) ==
    /\ pc # "llm_error" => TwoPerTurn(messages, typed)
    /\ (Ended(pc) /\ typed # <<>>) => ArchivedAsEntry(messages)

\* C16: a session starts with an empty transcript, after N turns that all
\* succeeded its transcript has 2N messages, user then assistant for each
\* turn in the order typed, and once the session has read an exit keyword
\* the archive file holds an entry whose messages are exactly those 2N
\* records in that order.
C16_TwoPerTurnThenArchived ==
    /\ SessionArchived(pc1, current_messages1, typed1)
    /\ \A t \in ThreadIds :
           SessionArchived(pc2[t], current_messages2[t], typed2[t])

\* The same, for the runs that start on a file whose bytes decode as text.
C16_ReadableStart == Unreadable(inicial) \/ C16_TwoPerTurnThenArchived

\* The text of the file is a JSON value that is no array.
ParsesToNonArray(file) ==
    /\ file.exists
    /\ Len(file.bytes) > 0
    /\ ~UndecodableText(file.bytes)
    /\ json_loads(file.bytes).ok
    /\ ~isinstance_list(json_loads(file.bytes).value)

\* C17: a call of salvar_interacoes on a file whose text is a JSON value
\* that is no array returns and leaves in the file the array of two
\* elements, that value and then the new bloco.
C17_NonArrayWrapped ==
    [][(tentativas' = tentativas + 1 /\ ParsesToNonArray(arquivo)) =>
          /\ falhas' = falhas
          /\ IsJsonArray(arquivo')
          /\ Len(ArchiveList(arquivo')) = 2
          /\ ArchiveList(arquivo')[1] = json_loads(arquivo.bytes).value
          /\ ArchiveList(arquivo')[2] = Last(salvos')
          /\ IsArchiveEntry(ArchiveList(arquivo')[2])]_vars

C17_Witness ==
    /\ ParsesToNonArray(inicial)
    /\ Len(inicial.bytes) = 3
    /\ tentativas = 1
    /\ falhas = 0
    /\ ArchiveList(arquivo) = <<[scalar |-> "7"], salvos[1]>>

\* The line is one of sair, exit, quit, q, letter by letter, each letter in
\* either case.
SameLetter(c, k) ==
    c = k \/ \E j \in 1..Len(Upper) : Upper[j] = c /\ LowerCase[j] = k

IsExitLine(line) ==
    \E kw \in {<<"s", "a", "i", "r">>, <<"e", "x", "i", "t">>,
                <<"q", "u", "i", "t">>, <<"q">>} :
        /\ Len(line) = Len(kw)
        /\ \A i \in 1..Len(kw) : SameLetter(line[i], kw[i])

OtherLines(lines) == SelectSeq(lines, LAMBDA l : ~IsExitLine(l))

\* What holds of one session: the lines it read, the turns it started, its
\* position and the messages it holds or has handed to the llm.
ExitEndsLoop(pc, lido, typed, messages) ==
    /\ \A i \in 1..Len(lido) :
           IsExitLine(lido[i]) => (i = Len(lido) /\ Ended(pc))
    /\ Ended(pc) => (lido # <<>> /\ IsExitLine(lido[Len(lido)]))
    /\ typed = OtherLines(lido)
    /\ \A i \in 1..Len(messages) :
           messages[i].type = "HumanMessage" =>
               /\ ~IsExitLine(messages[i].content.chars)
               /\ \E k \in 1..Len(typed) : typed[k] = messages[i].content.chars

\* C18: a line that is an exit keyword in any letter case is the last line
\* the session reads, it starts no turn, and it is in no transcript, no
\* checkpoint and no input of the llm; every other line read has started
\* exactly one turn, in the order read.
C18_ExitKeywordEndsLoop ==
    /\ ExitEndsLoop(pc1, lido1, typed1, current_messages1)
    /\ \A t \in ThreadIds :
           /\ ExitEndsLoop(pc2[t], lido2[t], typed2[t], current_messages2[t])
           /\ ExitEndsLoop(pc2[t], lido2[t], typed2[t], llm_seen[t])
           /\ t \in DOMAIN storage =>
                  ExitEndsLoop(pc2[t], lido2[t], typed2[t], storage[t])

C18_Witness ==
    /\ lido1 = <<<<"q", " ">>, <<"E", "X", "I", "T">>>>
    /\ typed1 = <<<<"q", " ">>>>
    /\ pc1 = "done"
    /\ lido2[MainThread] = <<<<"a", "\t", " ", "b">>, <<"S", "a", "i", "r">>>>
    /\ Len(current_messages2[MainThread]) = 2

\* No session has read an exit keyword.
NoSessionEnded == ~Ended(pc1) /\ \A t \in ThreadIds : ~Ended(pc2[t])

\* C19: the pass of the loop in which llm.invoke raises leaves the archive
\* file and the count of salvar_interacoes calls as they were; the session
\* takes no step afterwards (it reads no line, its exit branch never
\* runs); and as long as no session has read an exit keyword, whatever
\* turns succeeded or failed, the file is as it was at the start and
\* salvar_interacoes was never called.
C19_FailureArchivesNothing ==
    /\ [](NoSessionEnded =>
             (arquivo = inicial /\ tentativas = 0 /\ salvos = <<>>))
    /\ [][/\ (pc1 = "input" /\ pc1' = "llm_error") => UNCHANGED avars
          /\ pc1 = "llm_error" => UNCHANGED ex001_vars
          /\ \A t \in ThreadIds :
                 /\ (pc2[t] = "input" /\ pc2'[t] = "llm_error") =>
                        UNCHANGED avars
                 /\ pc2[t] = "llm_error" =>
                        /\ pc2'[t] = "llm_error"
                        /\ lido2'[t] = lido2[t]
                        /\ current_messages2'[t] = current_messages2[t]]_vars

C19_Witness ==
    /\ pc1 = "llm_error"
    /\ Len(typed1) = 2
    /\ Len(current_messages1) = 3
    /\ pc2[MainThread] = "llm_error"
    /\ Len(typed2[MainThread]) = 2
    /\ arquivo = inicial
    /\ tentativas = 0

\* C20: in ex002, whenever the last turn of a session succeeded, the
\* session's current_messages is the transcript checkpointed under its
\* thread id, and the bloco a session has archived at exit holds the
\* records of that checkpointed transcript.
C20_LocalCopyIsCheckpoint ==
    \A t \in ThreadIds :
        /\ (pc2[t] # "llm_error" /\ typed2[t] # <<>>) =>
               /\ t \in DOMAIN storage
               /\ current_messages2[t] = storage[t]
               /\ current_messages2[t] = get_tuple(storage, t)
        /\ (pc2[t] = "done" /\ typed2[t] # <<>>) =>
               \E k \in 1..Len(salvos) :
                   salvos[k].messages = messages_para_json(storage[t])

C20_Witness ==
    /\ pc2[1] = "done"
    /\ Len(typed2[1]) = 2
    /\ Len(storage[1]) = 4
    /\ pc2[2] = "input"
    /\ Len(typed2[2]) = 1
    /\ current_messages2[2] = storage[2]
    /\ Len(salvos) = 1

====
